---- MODULE Spec2Model ----
(***************************************************************************)
(* kiibohd-core: the Hall-effect calibration / kinematic-analysis engine   *)
(* (kiibohd-hall-effect) and the matrix strobe scanner                      *)
(* (kiibohd-keyscanning), as state machines.                                *)
(***************************************************************************)
EXTENDS Integers, Sequences, FiniteSets, TLC

(***************************************************************************)
(* Bounds of the model.                                                     *)
(***************************************************************************)
\* Raw ADC readings are drawn from 0..MaxReading.
MaxReading == 4
\* The oversampling factor SC is drawn from 1..MaxSC.
MaxSC == 2

Readings == 0..MaxReading

\* The instance of Matrix<C, R, CSIZE, RSIZE, MSIZE, ...> modelled: CSIZE
\* columns and RSIZE rows.
CSIZE == 2
RSIZE == 2
\* DEBOUNCE_US / SCAN_PERIOD_US and IDLE_MS * 1000 / SCAN_PERIOD_US, in scan cycles.
DebounceCycles == 2
IdleCycles == 1
\* The u32 cycle counters of a debounce cell are followed up to MaxCycles.
MaxCycles == 1

(***************************************************************************)
(* State of the matrix scanner (kiibohd-keyscanning).                       *)
(***************************************************************************)
VARIABLES
    cols,          \* Matrix.cols: the level each strobe pin is driven to (TRUE = high)
    rows,          \* Matrix.rows: the direction each sense pin is configured in
    cur_strobe,    \* Matrix.cur_strobe
    state_matrix,  \* Matrix.state_matrix
    mret,          \* what the last call on the Matrix returned
    pin_log,       \* history: the pin operations of the last call, in order
    window,        \* history: the cells fed by each of the last CSIZE senses
    probe,         \* history: the run of equal levels read from the probed key
    phase,         \* history: the last call that drives columns, and how it ended
    last_idx,      \* history: the index next_strobe last returned, -1 if none
    mpre           \* history: cur_strobe and phase before the last call

mvars == <<cols, rows, cur_strobe, state_matrix, mret, pin_log, window, probe, phase,
          last_idx, mpre>>

(***************************************************************************)
(* kiibohd-hall-effect                                                      *)
(***************************************************************************)
VARIABLES
    SC, MMT, MX, MNOK, MXOK, NS,  \* the compile-time generics of SenseData::add
    analysis,                     \* SenseData.analysis : SenseAnalysis
    cal,                          \* SenseData.cal      : CalibrationStatus
    data,                         \* SenseData.data     : RawData
    stats,                        \* SenseData.stats    : SenseStats
    ret,                          \* what the last SenseData::add returned
    pre,                          \* history: the SenseData before the last add
    batch,                        \* history: count and sum of the readings of the
                                  \* batch the last add belongs to
    visits,                       \* history: the statuses a ramp has visited
    sensors,                      \* Sensors.sensors : Vec<SenseData, S>
    sret,                         \* what the last call on the Sensors returned
    track                         \* history, per sensor of the Sensors: how many
                                  \* readings it was given (up to SC) and whether
                                  \* it was ever classified MagnetDetected

hvars == <<SC, MMT, MX, MNOK, MXOK, NS, analysis, cal, data, stats, ret, pre, batch>>

svars == <<SC, MMT, MX, MNOK, MXOK, NS, analysis, cal, data, stats, ret, pre, batch, visits,
          sensors, sret, track>>

\* enum CalibrationStatus (InvalidIndex is never a sensor's own state)
CalibrationStatus ==
    {"NotReady", "SensorMissing", "SensorBroken", "MagnetDetected",
     "MagnetWrongPoleOrMissing", "MagnetTooStrong", "MagnetTooWeak", "InvalidIndex"}

\* Rust's integer division truncates toward zero; TLA+'s \div floors.
TruncDiv(a, b) ==
    IF a >= 0 THEN a \div b ELSE -((-a) \div b)

\* rawlookup::MODEL, the ADC-to-distance table: monotonic non-decreasing, with
\* negative entries for unexpectedly small readings.
MODEL(raw) == (raw * (raw + 1)) \div 2 - 3

\* SenseAnalysis::null
SenseAnalysis_null ==
    [raw |-> 0, distance |-> 0, velocity |-> 0, acceleration |-> 0, jerk |-> 0]

\* SenseAnalysis::new with the acceleration's quotient floored instead of
\* truncated toward zero.
SenseAnalysis_new_floor(raw, sd) ==
    IF sd.cal = "MagnetDetected"
    THEN LET distance     == MODEL(raw) - MODEL(sd.stats.min)
             velocity     == distance - sd.analysis.distance
             acceleration == (velocity - sd.analysis.velocity) \div 2
             jerk         == acceleration - sd.analysis.acceleration
         IN  [raw |-> raw, distance |-> distance, velocity |-> velocity,
              acceleration |-> acceleration, jerk |-> jerk]
    ELSE SenseAnalysis_null

\* SenseAnalysis::new(raw, data): sd is the SenseData it reads.  The fields are
\* i16; with this table every difference stays far inside the i16 range, so
\* no step wraps or panics.
SenseAnalysis_new(raw, sd) ==
    IF sd.cal = "MagnetDetected"
    THEN LET initial_distance == MODEL(raw)
             distance_offset  == MODEL(sd.stats.min)
             distance         == initial_distance - distance_offset
             velocity         == distance - sd.analysis.distance
             acceleration     == TruncDiv(velocity - sd.analysis.velocity, 2)
             jerk             == acceleration - sd.analysis.acceleration
         IN  [raw |-> raw, distance |-> distance, velocity |-> velocity,
              acceleration |-> acceleration, jerk |-> jerk]
    ELSE SenseAnalysis_null

\* RawData::new
RawData_new == [scratch_samples |-> 0, scratch |-> 0]

\* RawData::add that resets the count but not the sum.
RawData_add_keepsum(rd, sc, reading) ==
    LET scratch         == rd.scratch + reading
        scratch_samples == (rd.scratch_samples + 1) % 256
    IN  IF scratch_samples = sc % 256
        THEN [rd  |-> [scratch_samples |-> 0, scratch |-> scratch],
              out |-> (scratch \div sc) % 65536]
        ELSE [rd  |-> [scratch_samples |-> scratch_samples, scratch |-> scratch],
              out |-> -1]

\* RawData::add::<SC>(reading): the new RawData and the Option<u16> returned
\* (out = -1 stands for None).  scratch is a u32 and holds at most 255 u16
\* readings (scratch_samples is a u8), so the sum never wraps; scratch_samples
\* keeps its u8 width and the average its cast to u16.
RawData_add(rd, sc, reading) ==
    LET scratch         == rd.scratch + reading
        scratch_samples == (rd.scratch_samples + 1) % 256
    IN  IF scratch_samples = sc % 256
        THEN [rd  |-> [scratch_samples |-> 0, scratch |-> 0],
              out |-> (scratch \div sc) % 65536]
        ELSE [rd  |-> [scratch_samples |-> scratch_samples, scratch |-> scratch],
              out |-> -1]

\* SenseStats::new
SenseStats_new == [min |-> 65535, max |-> 0, samples |-> 0]

\* SenseStats::reset that resets min but keeps max.
SenseStats_reset_minonly(st) == [st EXCEPT !.min = 65535]

\* SenseStats::reset
SenseStats_reset(st) == [st EXCEPT !.min = 65535, !.max = 0]

\* check_calibration without the MagnetTooStrong latch.
check_calibration_nolatch(c, mmt, mx, mnok, mxok, ns, d) ==
    IF c = "MagnetDetected"
    THEN IF d >= mx - 1 THEN "MagnetTooStrong"
         ELSE IF d < mmt THEN "MagnetTooWeak"
         ELSE "MagnetDetected"
    ELSE IF d > mxok THEN "SensorBroken"
         ELSE IF d < ns THEN "SensorMissing"
         ELSE IF d < mnok
         THEN IF c = "MagnetTooWeak" THEN "MagnetTooWeak" ELSE "MagnetWrongPoleOrMissing"
         ELSE "MagnetDetected"

\* check_calibration comparing against MX instead of MX - 1 in Normal Mode.
check_calibration_mx(c, mmt, mx, mnok, mxok, ns, d) ==
    IF c = "MagnetDetected"
    THEN IF d >= mx THEN "MagnetTooStrong"
         ELSE IF d < mmt THEN "MagnetTooWeak"
         ELSE "MagnetDetected"
    ELSE IF d > mxok
         THEN IF c = "MagnetTooStrong" THEN "MagnetTooStrong" ELSE "SensorBroken"
         ELSE IF d < ns THEN "SensorMissing"
         ELSE IF d < mnok
         THEN IF c = "MagnetTooWeak" THEN "MagnetTooWeak" ELSE "MagnetWrongPoleOrMissing"
         ELSE "MagnetDetected"

\* check_calibration reporting MagnetTooStrong for every sample above MXOK.
check_calibration_strong(c, mmt, mx, mnok, mxok, ns, d) ==
    IF c = "MagnetDetected"
    THEN IF d >= mx - 1 THEN "MagnetTooStrong"
         ELSE IF d < mmt THEN "MagnetTooWeak"
         ELSE "MagnetDetected"
    ELSE IF d > mxok THEN "MagnetTooStrong"
         ELSE IF d < ns THEN "SensorMissing"
         ELSE IF d < mnok
         THEN IF c = "MagnetTooWeak" THEN "MagnetTooWeak" ELSE "MagnetWrongPoleOrMissing"
         ELSE "MagnetDetected"

\* check_calibration with the test of the MagnetTooStrong latch inverted.
check_calibration_inverted(c, mmt, mx, mnok, mxok, ns, d) ==
    IF c = "MagnetDetected"
    THEN IF d >= mx - 1 THEN "MagnetTooStrong"
         ELSE IF d < mmt THEN "MagnetTooWeak"
         ELSE "MagnetDetected"
    ELSE IF d > mxok
         THEN IF c # "MagnetTooStrong" THEN "MagnetTooStrong" ELSE "SensorBroken"
         ELSE IF d < ns THEN "SensorMissing"
         ELSE IF d < mnok
         THEN IF c = "MagnetTooWeak" THEN "MagnetTooWeak" ELSE "MagnetWrongPoleOrMissing"
         ELSE "MagnetDetected"

\* SenseData::check_calibration::<MMT, MX, MNOK, MXOK, NS>(data)
check_calibration(c, mmt, mx, mnok, mxok, ns, d) ==
    IF c = "MagnetDetected"
    THEN \* Normal Mode
         IF d >= mx - 1 THEN "MagnetTooStrong"
         ELSE IF d < mmt THEN "MagnetTooWeak"
         ELSE "MagnetDetected"
    ELSE \* Calibration Mode
         IF d > mxok
         THEN IF c = "MagnetTooStrong" THEN "MagnetTooStrong" ELSE "SensorBroken"
         ELSE IF d < ns THEN "SensorMissing"
         ELSE IF d < mnok
         THEN IF c = "MagnetTooWeak" THEN "MagnetTooWeak" ELSE "MagnetWrongPoleOrMissing"
         ELSE "MagnetDetected"

\* The SenseData record as a value (SenseData::clone).
Self == [analysis |-> analysis, cal |-> cal, data |-> data, stats |-> stats]

\* SenseData::new
SenseData_new ==
    [analysis |-> SenseAnalysis_null, cal |-> "NotReady",
     data |-> RawData_new, stats |-> SenseStats_new]

\* The calibration-lost arm without `self.analysis.raw = data`.
calibration_lost_noraw(sd, d) ==
    [sd EXCEPT !.stats = SenseStats_reset(sd.stats), !.analysis = SenseAnalysis_null]

\* The calibration-lost arm without `self.analysis = SenseAnalysis::null()`.
calibration_lost_noclear(sd, d) ==
    [sd EXCEPT !.stats = SenseStats_reset(sd.stats), !.analysis.raw = d]

\* The calibration-lost arm without `self.stats.reset()`.
calibration_lost_noreset(sd, d) ==
    [sd EXCEPT !.analysis = [SenseAnalysis_null EXCEPT !.raw = d]]

\* SenseData::add, the arm taken when the new status is not MagnetDetected:
\* reset min/max, clear the analysis, set only its raw field.
calibration_lost(sd, d) ==
    [sd EXCEPT !.stats = SenseStats_reset(sd.stats),
               !.analysis = [SenseAnalysis_null EXCEPT !.raw = d]]

\* SenseData::add that tracks min and max on every reading, not only on the
\* average of a completed batch.
SenseData_add_eager(sd, sc, mmt, mx, mnok, mxok, ns, reading) ==
    LET acc == RawData_add(sd.data, sc, reading)
    IN  IF acc.out # -1
        THEN LET d    == acc.out
                 max1 == IF d > sd.stats.max THEN d ELSE sd.stats.max
                 min1 == IF d < sd.stats.min THEN d ELSE sd.stats.min
                 st1  == [sd.stats EXCEPT !.max = max1, !.min = min1]
                 c1   == check_calibration(sd.cal, mmt, mx, mnok, mxok, ns, d)
                 sd1  == [sd EXCEPT !.data = acc.rd, !.stats = st1, !.cal = c1]
             IN  IF c1 = "MagnetDetected"
                 THEN LET sd2 == [sd1 EXCEPT !.analysis = SenseAnalysis_new(d, sd1)]
                      IN  [sd |-> sd2, kind |-> "OkSome", snap |-> sd2]
                 ELSE LET sd2 == calibration_lost(sd1, d)
                      IN  [sd |-> sd2, kind |-> "CalibrationError", snap |-> sd2]
        ELSE LET max1 == IF reading > sd.stats.max THEN reading ELSE sd.stats.max
                 min1 == IF reading < sd.stats.min THEN reading ELSE sd.stats.min
                 sd1  == [sd EXCEPT !.data = acc.rd, !.stats.max = max1, !.stats.min = min1]
             IN  [sd |-> sd1, kind |-> "OkNone", snap |-> sd1]

\* SenseData::add, as a function of the record: the record afterwards and the
\* Result returned (the CalibrationError carries a clone of the record).
SenseData_add(sd, sc, mmt, mx, mnok, mxok, ns, reading) ==
    LET acc == RawData_add(sd.data, sc, reading)
    IN  IF acc.out # -1
        THEN LET d    == acc.out
                 max1 == IF d > sd.stats.max THEN d ELSE sd.stats.max
                 min1 == IF d < sd.stats.min THEN d ELSE sd.stats.min
                 st1  == [sd.stats EXCEPT !.max = max1, !.min = min1]
                 c1   == check_calibration(sd.cal, mmt, mx, mnok, mxok, ns, d)
                 sd1  == [sd EXCEPT !.data = acc.rd, !.stats = st1, !.cal = c1]
             IN  IF c1 = "MagnetDetected"
                 THEN LET sd2 == [sd1 EXCEPT !.analysis = SenseAnalysis_new(d, sd1)]
                      IN  [sd |-> sd2, kind |-> "OkSome", snap |-> sd2]
                 ELSE LET sd2 == calibration_lost(sd1, d)
                      IN  [sd |-> sd2, kind |-> "CalibrationError", snap |-> sd2]
        ELSE LET sd1 == [sd EXCEPT !.data = acc.rd]
             IN  [sd |-> sd1, kind |-> "OkNone", snap |-> sd1]

\* SenseData::new, under each of the compile-time configurations explored:
\* NS <= MNOK <= MXOK and MMT < MX - 1, with MMT on either side of MNOK and
\* MX - 1 on either side of MXOK.
HInit ==
    /\ SC \in 1..MaxSC
    /\ NS = 1
    /\ MNOK \in {1, 2}
    /\ MXOK = 3
    /\ MMT \in {1, 3}
    /\ MX \in {4, 5, 6}
    /\ MMT < MX - 1
    /\ analysis = SenseData_new.analysis
    /\ cal = SenseData_new.cal
    /\ data = SenseData_new.data
    /\ stats = SenseData_new.stats
    /\ ret = [kind |-> "New", snap |-> SenseData_new]
    /\ pre = SenseData_new
    /\ batch = [n |-> 0, sum |-> 0]

\* SenseData::new under configurations whose thresholds need not be ordered:
\* NS and MNOK may lie above MXOK, so that a sample can be above MXOK and below
\* NS or MNOK at once.
HInitAny ==
    /\ SC \in 1..MaxSC
    /\ NS \in {1, MaxReading + 1}
    /\ MNOK \in {1, 2, MaxReading + 1}
    /\ MXOK = 3
    /\ MMT = 1
    /\ MX \in {5, 6}
    /\ analysis = SenseData_new.analysis
    /\ cal = SenseData_new.cal
    /\ data = SenseData_new.data
    /\ stats = SenseData_new.stats
    /\ ret = [kind |-> "New", snap |-> SenseData_new]
    /\ pre = SenseData_new
    /\ batch = [n |-> 0, sum |-> 0]

\* One call of SenseData::add::<SC, MMT, MX, MNOK, MXOK, NS>(reading).
AddCore(reading) ==
    LET r == SenseData_add(Self, SC, MMT, MX, MNOK, MXOK, NS, reading)
    IN  /\ analysis' = r.sd.analysis
        /\ cal' = r.sd.cal
        /\ data' = r.sd.data
        /\ stats' = r.sd.stats
        /\ ret' = [kind |-> r.kind, snap |-> r.snap]
        /\ pre' = Self
        /\ batch' = IF batch.n >= SC
                    THEN [n |-> 1, sum |-> reading]
                    ELSE [n |-> batch.n + 1, sum |-> batch.sum + reading]
        /\ UNCHANGED <<SC, MMT, MX, MNOK, MXOK, NS>>

\* The last add completed a batch, and the averaged sample of that batch
\* (both from the history of the readings, not from the sensor record).
Completed == batch.n = SC
Sample == batch.sum \div SC

Add(reading) ==
    /\ AddCore(reading)
    /\ UNCHANGED <<visits, sensors, sret, track>>
    /\ UNCHANGED mvars

HNext == \E reading \in Readings : Add(reading)

\* A caller feeding a ramp: every averaged sample is strictly above the one
\* before it.  visits lists the statuses the completed batches produced.
RampAdd(reading) ==
    /\ AddCore(reading)
    /\ Completed' => (visits = <<>> \/ Sample' > analysis.raw)
    /\ visits' = IF ~Completed' THEN visits
                 ELSE IF visits # <<>> /\ visits[Len(visits)] = cal' THEN visits
                 ELSE Append(visits, cal')
    /\ UNCHANGED <<sensors, sret, track>>
    /\ UNCHANGED mvars

RampNext == \E reading \in Readings : RampAdd(reading)

\* No status occurs twice in a list of visited statuses.
NoRevisit(v) == \A i, j \in 1..Len(v) : i < j => v[i] # v[j]

\* A caller feeding a steady input to a sensor with any history: WarmAdd gives
\* it arbitrary readings; from some batch on, SteadyAdd gives it batches that
\* all average to the same sample.  visits lists the statuses those batches
\* produced (a status that lasts is listed once), up to the first status that
\* comes back.
WarmAdd(reading) ==
    /\ visits = <<>>
    /\ Add(reading)

SteadyAdd(reading) ==
    /\ AddCore(reading)
    /\ Completed' => (visits = <<>> \/ Sample' = analysis.raw)
    /\ visits' = IF ~Completed' \/ ~NoRevisit(visits) THEN visits
                 ELSE IF visits # <<>> /\ visits[Len(visits)] = cal' THEN visits
                 ELSE Append(visits, cal')
    /\ UNCHANGED <<sensors, sret, track>>
    /\ UNCHANGED mvars

SteadyNext ==
    \/ \E reading \in Readings : WarmAdd(reading)
    \/ \E reading \in Readings : SteadyAdd(reading)

(***************************************************************************)
(* Sensors<S>: the array of SenseData behind the Hall Effect interface.     *)
(***************************************************************************)
Min2(a, b) == IF a < b THEN a ELSE b

\* S, the capacity of the Sensors modelled.
S == 2

\* Sensors::new, when resize_default succeeds: S default SenseData.
SInit ==
    /\ sensors = [i \in 0..(S - 1) |-> SenseData_new]
    /\ sret = [op |-> "new", index |-> 0, kind |-> "Ok", snap |-> SenseData_new]
    /\ track = [i \in 0..(S - 1) |-> [fed |-> 0, detected |-> FALSE]]

\* self.sensors.len()
sensors_len == Cardinality(DOMAIN sensors)

\* Sensors::add taking an index at or above the capacity modulo the capacity.
Sensors_add_wrap(index, reading) ==
    LET r == SenseData_add(sensors[index % S], SC, MMT, MX, MNOK, MXOK, NS, reading)
    IN  /\ sensors' = [sensors EXCEPT ![index % S] = r.sd]
        /\ sret' = [op |-> "add", index |-> index, kind |-> r.kind, snap |-> r.snap]
        /\ track' = [track EXCEPT ![index % S] =
                        [fed      |-> Min2(track[index % S].fed + 1, SC),
                         detected |-> track[index % S].detected \/ r.sd.cal = "MagnetDetected"]]
        /\ UNCHANGED <<hvars, visits>>
        /\ UNCHANGED mvars

\* Sensors::add::<SC, MMT, MX, MNOK, MXOK, NS>(index, reading)
Sensors_add(index, reading) ==
    /\ IF index < sensors_len
       THEN LET r == SenseData_add(sensors[index], SC, MMT, MX, MNOK, MXOK, NS, reading)
            IN  /\ sensors' = [sensors EXCEPT ![index] = r.sd]
                /\ sret' = [op |-> "add", index |-> index, kind |-> r.kind, snap |-> r.snap]
                /\ track' = [track EXCEPT ![index] =
                                [fed      |-> Min2(track[index].fed + 1, SC),
                                 detected |-> track[index].detected
                                                 \/ r.sd.cal = "MagnetDetected"]]
       ELSE /\ sret' = [op |-> "add", index |-> index, kind |-> "InvalidSensor",
                        snap |-> SenseData_new]
            /\ UNCHANGED <<sensors, track>>
    /\ UNCHANGED <<hvars, visits>>
    /\ UNCHANGED mvars

\* Sensors::get_data failing for every sensor that is not in MagnetDetected.
Sensors_get_data_calibrated(index) ==
    /\ sret' = IF index < sensors_len
               THEN [op |-> "get_data", index |-> index,
                     kind |-> IF sensors[index].cal # "MagnetDetected"
                              THEN "CalibrationError" ELSE "Ok",
                     snap |-> sensors[index]]
               ELSE [op |-> "get_data", index |-> index, kind |-> "InvalidSensor",
                     snap |-> SenseData_new]
    /\ UNCHANGED <<hvars, visits, sensors, track>>
    /\ UNCHANGED mvars

\* Sensors::get_data without the NotReady test.
Sensors_get_data_noready(index) ==
    /\ sret' = IF index < sensors_len
               THEN [op |-> "get_data", index |-> index, kind |-> "Ok",
                     snap |-> sensors[index]]
               ELSE [op |-> "get_data", index |-> index, kind |-> "InvalidSensor",
                     snap |-> SenseData_new]
    /\ UNCHANGED <<hvars, visits, sensors, track>>
    /\ UNCHANGED mvars

\* Sensors::get_data(index): snap is the record the Ok refers to or the clone
\* the CalibrationError carries.
Sensors_get_data(index) ==
    /\ sret' = IF index < sensors_len
               THEN [op |-> "get_data", index |-> index,
                     kind |-> IF sensors[index].cal = "NotReady"
                              THEN "CalibrationError" ELSE "Ok",
                     snap |-> sensors[index]]
               ELSE [op |-> "get_data", index |-> index, kind |-> "InvalidSensor",
                     snap |-> SenseData_new]
    /\ UNCHANGED <<hvars, visits, sensors, track>>
    /\ UNCHANGED mvars

\* Sensors::get_data(index) as a function of the array ss: the Result it
\* returns, with the record the Ok refers to or the CalibrationError carries.
get_data(ss, index) ==
    IF index < Cardinality(DOMAIN ss)
    THEN [kind |-> IF ss[index].cal = "NotReady" THEN "CalibrationError" ELSE "Ok",
          snap |-> ss[index]]
    ELSE [kind |-> "InvalidSensor", snap |-> SenseData_new]

\* Callers index the array with anything from 0 to one past the capacity.
Indexes == 0..(S + 1)

\* The readings the sensors of the array are given: the lowest, the highest
\* and one in between, whose averages fall in every band of the thresholds.
SensorReadings == {0, MXOK, MaxReading}

SNext ==
    \/ \E index \in Indexes, reading \in SensorReadings : Sensors_add(index, reading)
    \/ \E index \in Indexes : Sensors_get_data(index)

(***************************************************************************)
(* kiibohd-keyscanning                                                      *)
(***************************************************************************)
Cols == 0..(CSIZE - 1)
Rows == 0..(RSIZE - 1)
MSIZE == CSIZE * RSIZE

Inc(n, cap) == IF n < cap THEN n + 1 ELSE cap

\* KeyState::new: confirmed Off, idle, no pending evidence.
KeyState_new == [state |-> "Off", pending |-> 0, cycles |-> 0, quiet |-> IdleCycles]

\* KeyState::record(on): the cell afterwards.  A level that disagrees with the
\* confirmed state is pending evidence; DebounceCycles of it in a row flip the
\* confirmed state; an agreeing level clears it.  quiet counts the cycles a
\* confirmed-Off cell has gone without disagreement.
KeyState_record(k, on) ==
    LET disagrees == (k.state = "On") # on
    IN  IF disagrees
        THEN IF k.pending + 1 >= DebounceCycles
             THEN [state |-> IF on THEN "On" ELSE "Off", pending |-> 0,
                   cycles |-> 0, quiet |-> 0]
             ELSE [k EXCEPT !.pending = k.pending + 1,
                            !.cycles = Inc(k.cycles, MaxCycles), !.quiet = 0]
        ELSE [k EXCEPT !.pending = 0, !.cycles = Inc(k.cycles, MaxCycles),
                       !.quiet = IF k.state = "Off" THEN Inc(k.quiet, IdleCycles) ELSE 0]

\* What record returns: (state, idle, cycles_since_state_change).
KeyState_idle(k) == k.state = "Off" /\ k.quiet >= IdleCycles

\* enum KeyEvent, from a cell as sense classifies it.
KeyEvent(k) ==
    IF k.state = "On"
    THEN [on |-> TRUE, idle |-> FALSE, cycles_since_state_change |-> k.cycles]
    ELSE [on |-> FALSE, idle |-> KeyState_idle(k), cycles_since_state_change |-> k.cycles]

History == [cur_strobe |-> cur_strobe, phase |-> phase, last_idx |-> last_idx]

\* The key whose levels probe follows, and the cell that debounces it.
Probe == [col |-> 0, row |-> RSIZE - 1]
ProbeCell == Probe.col * RSIZE + Probe.row

\* No run of levels yet.
Probe_new == [level |-> FALSE, run |-> 0, start |-> "Off", flips |-> 0]

\* probe after the probed key read lv: the level, how many reads in a row
\* returned it (followed up to DebounceCycles + 1), the confirmed state of the
\* key's cell when the run began and how often it changed during the run.
\* before and after are the cell around the read.
Probe_read(p, lv, before, after) ==
    LET flipped == before.state # after.state
    IN  IF p.run > 0 /\ p.level = lv
        THEN [p EXCEPT !.run = Inc(p.run, DebounceCycles + 1),
                       !.flips = IF flipped THEN Inc(p.flips, 2) ELSE p.flips]
        ELSE [level |-> lv, run |-> 1, start |-> before.state,
              flips |-> IF flipped THEN 1 ELSE 0]

\* The levels every row reads while no switch of the matrix is closed.
Released == [r \in Rows |-> FALSE]

\* The last n elements of a sequence (all of it when it is shorter).
LastN(q, n) == IF Len(q) <= n THEN q ELSE SubSeq(q, Len(q) - n + 1, Len(q))

\* The columns a column state drives high.
High(cs) == {c \in Cols : cs[c]}

\* One pin operation as pin_log keeps it: the operation, the index of the pin
\* in cols or rows, whether it succeeded, the level it read (is_high only) and
\* the columns that were high when it ran.
PinOp(op, pin, ok, val, high) ==
    [op |-> op, pin |-> pin, ok |-> ok, val |-> val, high |-> high]

\* Matrix::new, when it succeeds: clear() has driven every column low and
\* cur_strobe is CSIZE - 1.  (When its clear() fails there is no Matrix.)
MInit ==
    /\ cols = [c \in Cols |-> FALSE]
    /\ rows = [r \in Rows |-> "input"]
    /\ cur_strobe = CSIZE - 1
    /\ state_matrix = [m \in 0..(MSIZE - 1) |-> KeyState_new]
    /\ mret = [op |-> "new", ok |-> TRUE, val |-> 0, events |-> <<>>]
    /\ pin_log = [k \in 1..CSIZE |-> PinOp("set_low", k - 1, TRUE, FALSE, {})]
    /\ window = <<>>
    /\ probe = Probe_new
    /\ phase = "cleared"
    /\ last_idx = -1
    /\ mpre = [cur_strobe |-> CSIZE - 1, phase |-> "cleared", last_idx |-> -1]

\* Matrix::clear.  failAt = 0: no pin operation fails; failAt = k: set_low of
\* column k - 1 fails, and `?` returns before the later columns and before the
\* reset of cur_strobe.  A failed pin operation leaves its pin as it was.
Clear(failAt) ==
    /\ cols' = [c \in Cols |-> IF failAt = 0 \/ c < failAt - 1 THEN FALSE ELSE cols[c]]
    /\ cur_strobe' = IF failAt = 0 THEN CSIZE - 1 ELSE cur_strobe
    /\ mret' = [op |-> "clear", ok |-> failAt = 0, val |-> 0, events |-> <<>>]
    /\ pin_log' = [k \in 1..(IF failAt = 0 THEN CSIZE ELSE failAt) |->
                     PinOp("set_low", k - 1, k # failAt, FALSE,
                           {c \in High(cols) : c >= k - 1})]
    /\ phase' = IF failAt = 0 THEN "cleared" ELSE "clear_failed"
    /\ mpre' = History
    /\ UNCHANGED <<rows, state_matrix, last_idx, window, probe>>
    /\ UNCHANGED svars

\* The roll-over step wrapping one column early.
strobe_advance_early(cur) == IF cur >= CSIZE - 2 THEN 0 ELSE cur + 1

\* The roll-over step of Matrix::next_strobe.
strobe_advance(cur) == IF cur >= CSIZE - 1 THEN 0 ELSE cur + 1

\* The pin operations of a next_strobe that drains the rows before it sets the
\* current column low.
next_strobe_ops_late(cur, before, low) ==
    [k \in 1..(2 * RSIZE) |->
       PinOp(IF k % 2 = 1 THEN "into_output_pin" ELSE "into_input_pin",
             (k - 1) \div 2, TRUE, FALSE, High(before))]
    \o <<PinOp("set_low", cur, TRUE, FALSE, High(before))>>
    \o <<PinOp("set_high", strobe_advance(cur), TRUE, FALSE, High(low))>>

\* The pin operations of a next_strobe in which none fails: set_low of the
\* current column, the drain of each row in order, set_high of the next column.
\* before and low are the column levels before and after the set_low.
next_strobe_ops(cur, before, low) ==
    <<PinOp("set_low", cur, TRUE, FALSE, High(before))>>
    \o [k \in 1..(2 * RSIZE) |->
          PinOp(IF k % 2 = 1 THEN "into_output_pin" ELSE "into_input_pin",
                (k - 1) \div 2, TRUE, FALSE, High(low))]
    \o <<PinOp("set_high", strobe_advance(cur), TRUE, FALSE, High(low))>>

\* The operations of a call up to the one that fails (failAt = 0: none fails).
UpTo(ops, failAt) ==
    [k \in 1..(IF failAt = 0 THEN Len(ops) ELSE failAt) |->
       [ops[k] EXCEPT !.ok = (k # failAt)]]

\* next_strobe without the set_low of the current column.
NextStrobe_keep(failAt) ==
    LET last     == 2 + 2 * RSIZE
        advanced == failAt = 0 \/ failAt = last
        new      == IF advanced THEN strobe_advance(cur_strobe) ELSE cur_strobe
    IN  /\ cols' = IF failAt = 0 THEN [cols EXCEPT ![new] = TRUE] ELSE cols
        /\ pin_log' = Tail(UpTo(next_strobe_ops(cur_strobe, cols, cols), failAt))
        /\ rows' = [r \in Rows |->
                      IF failAt = 1 THEN rows[r]
                      ELSE IF failAt = 0 \/ failAt > 3 + 2 * r THEN "input"
                      ELSE IF failAt = 3 + 2 * r THEN "output"
                      ELSE rows[r]]
        /\ cur_strobe' = new
        /\ mret' = [op |-> "next_strobe", ok |-> failAt = 0,
                    val |-> IF failAt = 0 THEN new ELSE 0, events |-> <<>>]
        /\ phase' = IF failAt = 0 THEN "strobed" ELSE "strobe_failed"
        /\ last_idx' = IF failAt = 0 THEN new ELSE last_idx
        /\ mpre' = History
        /\ UNCHANGED <<state_matrix, window, probe>>
        /\ UNCHANGED svars

\* next_strobe advancing cur_strobe right after the set_low, before the drain.
NextStrobe_advance_first(failAt) ==
    LET last     == 2 + 2 * RSIZE
        advanced == failAt = 0 \/ failAt >= 2
        new      == IF advanced THEN strobe_advance(cur_strobe) ELSE cur_strobe
        low      == IF failAt = 1 THEN cols ELSE [cols EXCEPT ![cur_strobe] = FALSE]
    IN  /\ cols' = IF failAt = 0 THEN [low EXCEPT ![new] = TRUE] ELSE low
        /\ pin_log' = UpTo(next_strobe_ops(cur_strobe, cols, low), failAt)
        /\ rows' = [r \in Rows |->
                      IF failAt = 1 THEN rows[r]
                      ELSE IF failAt = 0 \/ failAt > 3 + 2 * r THEN "input"
                      ELSE IF failAt = 3 + 2 * r THEN "output"
                      ELSE rows[r]]
        /\ cur_strobe' = new
        /\ mret' = [op |-> "next_strobe", ok |-> failAt = 0,
                    val |-> IF failAt = 0 THEN new ELSE 0, events |-> <<>>]
        /\ phase' = IF failAt = 0 THEN "strobed" ELSE "strobe_failed"
        /\ last_idx' = IF failAt = 0 THEN new ELSE last_idx
        /\ mpre' = History
        /\ UNCHANGED <<state_matrix, window, probe>>
        /\ UNCHANGED svars

\* Matrix::next_strobe.  Its pin operations, in order: 1 = set_low of the
\* current column; 2 + 2i = row i into_output_pin(Low); 3 + 2i = row i
\* into_input_pin; 2 + 2 * RSIZE = set_high of the new column.  failAt names the
\* operation that fails (0: none); `?` returns at it.
NextStrobe(failAt) ==
    LET last     == 2 + 2 * RSIZE
        advanced == failAt = 0 \/ failAt = last
        new      == IF advanced THEN strobe_advance(cur_strobe) ELSE cur_strobe
        low      == IF failAt = 1 THEN cols ELSE [cols EXCEPT ![cur_strobe] = FALSE]
    IN  /\ cols' = IF failAt = 0 THEN [low EXCEPT ![new] = TRUE] ELSE low
        /\ pin_log' = UpTo(next_strobe_ops(cur_strobe, cols, low), failAt)
        /\ rows' = [r \in Rows |->
                      IF failAt = 1 THEN rows[r]
                      ELSE IF failAt = 0 \/ failAt > 3 + 2 * r THEN "input"
                      ELSE IF failAt = 3 + 2 * r THEN "output"
                      ELSE rows[r]]
        /\ cur_strobe' = new
        /\ mret' = [op |-> "next_strobe", ok |-> failAt = 0,
                    val |-> IF failAt = 0 THEN new ELSE 0, events |-> <<>>]
        /\ phase' = IF failAt = 0 THEN "strobed" ELSE "strobe_failed"
        /\ last_idx' = IF failAt = 0 THEN new ELSE last_idx
        /\ mpre' = History
        /\ UNCHANGED <<state_matrix, window, probe>>
        /\ UNCHANGED svars

\* Matrix::strobe
Strobe ==
    /\ mret' = [op |-> "strobe", ok |-> TRUE, val |-> cur_strobe, events |-> <<>>]
    /\ pin_log' = <<>>
    /\ mpre' = History
    /\ UNCHANGED <<cols, rows, cur_strobe, state_matrix, phase, last_idx, window, probe>>
    /\ UNCHANGED svars

\* The matrix cell index, as Matrix::sense computes it for row i of the
\* strobed column, with the column and row swapped.
index_transposed(cur, i) == i * CSIZE + cur

\* The matrix cell index computed as the sum of the column and the row.
index_overlap(cur, i) == cur + i

\* The matrix cell index Matrix::sense computes for row i of the strobed column.
index(cur, i) == cur * RSIZE + i

\* The loop of Matrix::sense recording the level of row 0 for every row.
RECURSIVE sense_rows_row0(_, _, _, _)
sense_rows_row0(sm, cur, levels, n) ==
    IF n = 0 THEN [sm |-> sm, events |-> <<>>, fed |-> <<>>]
    ELSE LET before == sense_rows_row0(sm, cur, levels, n - 1)
             idx    == index(cur, n - 1)
             cell   == KeyState_record(before.sm[idx], levels[0])
         IN  [sm     |-> [before.sm EXCEPT ![idx] = cell],
              events |-> Append(before.events, KeyEvent(cell)),
              fed    |-> Append(before.fed, idx)]

\* The loop of Matrix::sense over rows 0..n-1: each row's level is recorded in
\* its cell and the cell is classified as record returns it.  fed lists the
\* cells record was called on, in order.
RECURSIVE sense_rows(_, _, _, _)
sense_rows(sm, cur, levels, n) ==
    IF n = 0 THEN [sm |-> sm, events |-> <<>>, fed |-> <<>>]
    ELSE LET before == sense_rows(sm, cur, levels, n - 1)
             idx    == index(cur, n - 1)
             cell   == KeyState_record(before.sm[idx], levels[n - 1])
         IN  [sm     |-> [before.sm EXCEPT ![idx] = cell],
              events |-> Append(before.events, KeyEvent(cell)),
              fed    |-> Append(before.fed, idx)]

\* Matrix::sense.  levels[i] is what row i's is_high reads; failAt = k: the read
\* of row k - 1 fails, after the cells of the rows before it were recorded.
Sense(levels, failAt) ==
    LET n   == IF failAt = 0 THEN RSIZE ELSE failAt - 1
        res == sense_rows(state_matrix, cur_strobe, levels, n)
    IN  /\ state_matrix' = res.sm
        /\ mret' = [op |-> "sense", ok |-> failAt = 0, val |-> 0,
                    events |-> IF failAt = 0 THEN res.events ELSE <<>>]
        /\ pin_log' = UpTo([k \in 1..RSIZE |->
                              PinOp("is_high", k - 1, TRUE,
                                    k # failAt /\ levels[k - 1], High(cols))],
                           failAt)
        /\ window' = LastN(Append(window, res.fed), CSIZE)
        /\ probe' = IF cur_strobe = Probe.col /\ Probe.row < n
                     THEN Probe_read(probe, levels[Probe.row],
                                     state_matrix[ProbeCell], res.sm[ProbeCell])
                     ELSE probe
        /\ mpre' = History
        /\ UNCHANGED <<cols, rows, cur_strobe, phase, last_idx>>
        /\ UNCHANGED svars

MNext ==
    \/ \E failAt \in 0..CSIZE : Clear(failAt)
    \/ \E failAt \in 0..(2 + 2 * RSIZE) : NextStrobe(failAt)
    \/ Strobe
    \/ \E failAt \in 0..RSIZE : Sense(Released, failAt)

vars == <<svars, mvars>>

Init == HInit /\ visits = <<>> /\ SInit /\ MInit

\* The Hall-effect sensor under arbitrary readings.
Next == HNext
Spec == Init /\ [][Next]_vars

\* The Hall-effect sensor under arbitrary readings, thresholds in any order.
InitAny == HInitAny /\ visits = <<>> /\ SInit /\ MInit
SpecAny == InitAny /\ [][Next]_vars

\* The Hall-effect sensor under a ramp.
SpecRamp == Init /\ [][RampNext]_vars

\* The Hall-effect sensor under a steady input.
SpecSteady == Init /\ [][SteadyNext]_vars

\* The matrix scanner under arbitrary calls and pin failures, on a matrix with
\* no switch closed (every row reads low); the sensor is configured one way
\* and left alone.
MatrixInit == Init /\ SC = 1 /\ MNOK = 1 /\ MMT = 1 /\ MX = 6
SpecMatrix == MatrixInit /\ [][MNext]_vars

\* The Sensors array under arbitrary calls and indexes, configured with batches
\* of two readings and a narrow MagnetDetected band.
SensorsInit == Init /\ SC = 2 /\ MNOK = 2 /\ MMT = 3 /\ MX = 5
SpecSensors == SensorsInit /\ [][SNext]_vars

\* The scan loop of the Matrix documentation: next_strobe, then sense, again
\* and again, no pin operation failing, the rows reading any levels.
LoopStrobe ==
    /\ mret.op \in {"new", "sense"}
    /\ NextStrobe(0)

LoopSense(levels) ==
    /\ mret.op = "next_strobe"
    /\ Sense(levels, 0)

LoopNext ==
    \/ LoopStrobe
    \/ \E levels \in [Rows -> BOOLEAN] : LoopSense(levels)

SpecLoop == MatrixInit /\ [][LoopNext]_vars

(***************************************************************************)
(* Claims about the Hall-effect engine.                                     *)
(***************************************************************************)
Abs(x) == IF x < 0 THEN -x ELSE x

\* C1: Calibration Mode step.  For a sensor whose status before a completed
\* batch is not MagnetDetected, the status after it is decided in this order:
\* sample > MXOK gives MagnetTooStrong if it was already MagnetTooStrong and
\* SensorBroken otherwise; else sample < NS gives SensorMissing; else
\* sample < MNOK gives MagnetTooWeak if it was already MagnetTooWeak and
\* MagnetWrongPoleOrMissing otherwise; else MagnetDetected.  So no step goes
\* from MagnetTooStrong to SensorBroken or from MagnetTooWeak to
\* MagnetWrongPoleOrMissing.
C1_CalibrationModeStep ==
    (Completed /\ pre.cal # "MagnetDetected") =>
        /\ Sample > MXOK /\ pre.cal = "MagnetTooStrong" => cal = "MagnetTooStrong"
        /\ Sample > MXOK /\ pre.cal # "MagnetTooStrong" => cal = "SensorBroken"
        /\ Sample <= MXOK /\ Sample < NS => cal = "SensorMissing"
        /\ Sample <= MXOK /\ Sample >= NS /\ Sample < MNOK /\ pre.cal = "MagnetTooWeak"
              => cal = "MagnetTooWeak"
        /\ Sample <= MXOK /\ Sample >= NS /\ Sample < MNOK /\ pre.cal # "MagnetTooWeak"
              => cal = "MagnetWrongPoleOrMissing"
        /\ Sample <= MXOK /\ Sample >= NS /\ Sample >= MNOK => cal = "MagnetDetected"
        /\ ~(pre.cal = "MagnetTooStrong" /\ cal = "SensorBroken")
        /\ ~(pre.cal = "MagnetTooWeak" /\ cal = "MagnetWrongPoleOrMissing")

\* C1 witness: a latched MagnetTooStrong has just met another sample above MXOK.
C1_Witness ==
    /\ Completed
    /\ pre.cal = "MagnetTooStrong"
    /\ Sample > MXOK
    /\ cal = "MagnetTooStrong"

\* C2: Normal Mode step.  For a sensor whose status before a completed batch is
\* MagnetDetected, the status after it is MagnetTooStrong when sample >= MX - 1,
\* MagnetTooWeak when sample < MMT and MagnetDetected for MMT <= sample < MX - 1,
\* whatever MNOK, MXOK and NS are.
C2_NormalModeStep ==
    (Completed /\ pre.cal = "MagnetDetected") =>
        /\ Sample >= MX - 1 => cal = "MagnetTooStrong"
        /\ Sample < MMT => cal = "MagnetTooWeak"
        /\ (MMT <= Sample /\ Sample < MX - 1) => cal = "MagnetDetected"

\* C2 witness: a calibrated sensor keeps MagnetDetected on a sample that is
\* above MXOK (a Calibration Mode threshold) and one below MX - 1.
C2_Witness ==
    /\ Completed
    /\ pre.cal = "MagnetDetected"
    /\ Sample > MXOK
    /\ Sample = MX - 2
    /\ cal = "MagnetDetected"

\* The statuses in the order a ramp can meet them: the three statuses of a
\* calibrated sensor share a rank.
Rank(c) ==
    CASE c = "NotReady" -> 0
      [] c = "SensorMissing" -> 1
      [] c = "MagnetWrongPoleOrMissing" -> 2
      [] c \in {"MagnetDetected", "MagnetTooStrong", "MagnetTooWeak"} -> 3
      [] c = "SensorBroken" -> 4
      [] OTHER -> 5

IsPrefix(s, t) == Len(s) <= Len(t) /\ \A i \in 1..Len(s) : s[i] = t[i]

\* C3 as stated: on a strictly increasing ramp that starts below NS, the
\* statuses visited are SensorMissing, then MagnetWrongPoleOrMissing and/or
\* MagnetDetected, then SensorBroken, and no other status (neither
\* MagnetTooStrong nor MagnetTooWeak) is reached.  (Read leniently: a ramp that
\* jumps over a threshold band may skip its status.)
C3_RampAsStated ==
    (visits # <<>> /\ visits[1] = "SensorMissing") =>
        /\ \A i \in 1..Len(visits) :
              visits[i] \in {"SensorMissing", "MagnetWrongPoleOrMissing",
                             "MagnetDetected", "SensorBroken"}
        /\ \A i, j \in 1..Len(visits) : i < j => Rank(visits[i]) < Rank(visits[j])

\* C3, amended: on a strictly increasing ramp from a fresh sensor the statuses
\* are visited in the order SensorMissing, MagnetWrongPoleOrMissing,
\* MagnetDetected, SensorBroken (any of them may be skipped, none is revisited
\* once a later one is reached); MagnetTooStrong and MagnetTooWeak are reached
\* too, but only after MagnetDetected, by the Normal Mode thresholds; and
\* SensorBroken never directly follows MagnetDetected.
C3_RampAmended ==
    /\ \A i \in 1..Len(visits) : visits[i] \in CalibrationStatus \ {"NotReady", "InvalidIndex"}
    /\ \A i, j \in 1..Len(visits) : i < j => Rank(visits[i]) <= Rank(visits[j])
    /\ \A i \in 1..Len(visits) :
          visits[i] \in {"MagnetTooStrong", "MagnetTooWeak"}
             => \E j \in 1..(i - 1) : visits[j] = "MagnetDetected"
    /\ \A i \in 2..Len(visits) :
          visits[i] = "SensorBroken" => visits[i - 1] # "MagnetDetected"

\* C3 witness: a ramp that crossed NS, MNOK and MXOK in that order and ended in
\* MagnetTooStrong.
C3_Witness ==
    /\ visits = <<"SensorMissing", "MagnetWrongPoleOrMissing",
                  "MagnetDetected", "MagnetTooStrong">>
    /\ cal = "MagnetTooStrong"
    /\ analysis.raw > MXOK

\* C4: Accumulator batching.  The first SC - 1 readings of a batch return
\* "not yet" and leave sum and count at the batch's partial sum and count; the
\* SC-th reading yields one averaged sample equal to the floor of the sum of
\* the batch's SC readings over SC, and leaves sum and count at zero.
C4_AccumulatorBatching ==
    /\ (batch.n >= 1 /\ batch.n < SC) =>
          /\ ret.kind = "OkNone"
          /\ data.scratch_samples = batch.n
          /\ data.scratch = batch.sum
    /\ batch.n = SC =>
          /\ ret.kind \in {"OkSome", "CalibrationError"}
          /\ analysis.raw * SC <= batch.sum
          /\ batch.sum < (analysis.raw + 1) * SC
          /\ data.scratch_samples = 0
          /\ data.scratch = 0

\* C4 witness: a batch of two readings with an odd sum, after an earlier
\* completed batch, has been averaged.
C4_Witness ==
    /\ SC = 2
    /\ batch.n = 2
    /\ batch.sum = 5
    /\ analysis.raw = 2
    /\ pre.cal # "NotReady"

\* C5: Kinematic chain.  Whenever a completed batch leaves the sensor in
\* MagnetDetected: raw = sample; stats.min is the smaller of the old min and the
\* sample; distance = linearize(sample) - linearize(stats.min); velocity =
\* distance - previous distance; acceleration = (velocity - previous velocity)
\* / 2 truncated toward zero; jerk = acceleration - previous acceleration.
\* Distances 0, 2, 5, 9 end with velocity 4, acceleration 0 and jerk 0.
C5_KinematicChain ==
    (Completed /\ cal = "MagnetDetected") =>
        LET dv == analysis.velocity - pre.analysis.velocity
        IN  /\ analysis.raw = Sample
            /\ stats.min = Min2(pre.stats.min, Sample)
            /\ analysis.distance = MODEL(Sample) - MODEL(stats.min)
            /\ analysis.velocity = analysis.distance - pre.analysis.distance
            /\ 2 * analysis.acceleration \in {dv - 1, dv, dv + 1}
            /\ Abs(2 * analysis.acceleration) <= Abs(dv)
            /\ analysis.jerk = analysis.acceleration - pre.analysis.acceleration
            /\ (/\ pre.analysis.distance = 5 /\ pre.analysis.velocity = 3
                /\ pre.analysis.acceleration = 0 /\ analysis.distance = 9)
                  => (/\ analysis.velocity = 4 /\ analysis.acceleration = 0
                      /\ analysis.jerk = 0)

\* C5 witness: a calibrated sensor whose velocity dropped by 3 has
\* acceleration -1.
C5_Witness ==
    /\ Completed
    /\ pre.cal = "MagnetDetected"
    /\ cal = "MagnetDetected"
    /\ analysis.velocity - pre.analysis.velocity = -3
    /\ analysis.acceleration = -1

\* The record after one whole batch of the same reading.
RECURSIVE AddBatch(_, _, _)
AddBatch(sd, reading, n) ==
    IF n = 0 THEN sd
    ELSE AddBatch(SenseData_add(sd, SC, MMT, MX, MNOK, MXOK, NS, reading).sd, reading, n - 1)

\* C6: Calibration-error outcome.  Whenever a completed batch yields a status
\* other than MagnetDetected, add returns CalibrationError, and the record and
\* the snapshot in the error both have the new status, min/max at their
\* sentinels, analysis.raw = the sample and distance, velocity, acceleration
\* and jerk zero; a later batch can still bring the sensor to MagnetDetected.
C6_CalibrationErrorOutcome ==
    (Completed /\ cal # "MagnetDetected") =>
        /\ ret.kind = "CalibrationError"
        /\ ret.snap = Self
        /\ ret.snap.cal = cal
        /\ stats.min = 65535 /\ stats.max = 0
        /\ analysis = [raw |-> Sample, distance |-> 0, velocity |-> 0,
                       acceleration |-> 0, jerk |-> 0]
        /\ \E reading \in Readings : AddBatch(Self, reading, SC).cal = "MagnetDetected"

\* C6 witness: a calibrated sensor with a non-zero analysis has just lost its
\* calibration on a non-zero sample.
C6_Witness ==
    /\ Completed
    /\ ret.kind = "CalibrationError"
    /\ pre.cal = "MagnetDetected"
    /\ pre.analysis.distance # 0
    /\ Sample > 0

\* C7: Analysis invariant.  In every reachable state, if cal is not
\* MagnetDetected then distance, velocity, acceleration and jerk are all zero.
C7_AnalysisInvariant ==
    cal # "MagnetDetected" =>
        /\ analysis.distance = 0
        /\ analysis.velocity = 0
        /\ analysis.acceleration = 0
        /\ analysis.jerk = 0

\* C7 witness: the status has left MagnetDetected while velocity and jerk were
\* non-zero.
C7_Witness ==
    /\ cal # "MagnetDetected"
    /\ pre.cal = "MagnetDetected"
    /\ pre.analysis.velocity # 0
    /\ pre.analysis.jerk # 0

\* C8: Stats sentinel invariant.  In every reachable state, whenever cal is not
\* MagnetDetected, stats.min = 0xFFFF and stats.max = 0, also right after the
\* batch on which the status left MagnetDetected.
C8_StatsSentinelInvariant ==
    cal # "MagnetDetected" => (stats.min = 65535 /\ stats.max = 0)

\* C8 witness: the status has left MagnetDetected on a batch before which min
\* and max held real samples.
C8_Witness ==
    /\ Completed
    /\ cal # "MagnetDetected"
    /\ pre.cal = "MagnetDetected"
    /\ pre.stats.min < pre.stats.max
    /\ stats.min = 65535

\* C22: Fresh baseline on (re)calibration.  On every batch that moves the
\* sensor into MagnetDetected from any other status (NotReady or any error
\* status), the resulting record has stats.min = stats.max = analysis.raw =
\* the new sample and distance = velocity = acceleration = jerk = 0, whatever
\* samples came before that batch, and add returns that analysis; and while
\* the sensor is in MagnetDetected, stats.min <= analysis.raw <= stats.max.
C22_FreshBaseline ==
    /\ (Completed /\ pre.cal # "MagnetDetected" /\ cal = "MagnetDetected") =>
          /\ stats.min = Sample
          /\ stats.max = Sample
          /\ analysis = [SenseAnalysis_null EXCEPT !.raw = Sample]
          /\ ret.kind = "OkSome"
          /\ ret.snap.analysis = analysis
    /\ cal = "MagnetDetected" =>
          (stats.min <= analysis.raw /\ analysis.raw <= stats.max)

\* C22 witness: a sensor that had lost its calibration as MagnetTooStrong,
\* after a spread of samples, is back in MagnetDetected on a batch whose sample
\* is below the last one.
C22_Witness ==
    /\ Completed
    /\ pre.cal = "MagnetTooStrong"
    /\ cal = "MagnetDetected"
    /\ Sample < pre.analysis.raw
    /\ SC = MaxSC

\* C17 as stated: under a steady input (every batch averaging to the same
\* sample; NS <= MNOK <= MXOK and MMT < MX - 1) the status does not oscillate:
\* it never comes back to a status it has left, so it settles after finitely
\* many batches, and it never alternates between MagnetDetected and
\* MagnetTooStrong or MagnetTooWeak.
C17_NoOscillationAsStated ==
    NoRevisit(visits)

\* C17, amended: under a steady input the status never comes back to a status
\* it has left, and changes at most twice, when MMT <= MNOK and MXOK < MX - 1.
\* Otherwise it comes back only for a sample s with MNOK <= s <= MXOK that is
\* outside the Normal Mode band (s >= MX - 1 or s < MMT), and then it
\* alternates on every batch between MagnetDetected and MagnetTooStrong
\* (s >= MX - 1) or MagnetTooWeak (s < MMT).
C17_NoOscillation ==
    /\ (MMT <= MNOK /\ MXOK < MX - 1) => (NoRevisit(visits) /\ Len(visits) <= 2)
    /\ ~NoRevisit(visits) =>
          LET s     == analysis.raw
              other == IF s >= MX - 1 THEN "MagnetTooStrong" ELSE "MagnetTooWeak"
          IN  /\ MNOK <= s /\ s <= MXOK
              /\ s >= MX - 1 \/ s < MMT
              /\ \A i \in 1..Len(visits) : visits[i] \in {"MagnetDetected", other}
              /\ \A i \in 1..(Len(visits) - 1) : visits[i] # visits[i + 1]

\* C17 witness: with MMT <= MNOK and MXOK < MX - 1, a calibrated sensor under a
\* steady sample below NS went to MagnetTooWeak, then to SensorMissing, and has
\* kept SensorMissing on the batch after.
C17_Witness ==
    /\ MMT <= MNOK /\ MXOK < MX - 1
    /\ visits = <<"MagnetTooWeak", "SensorMissing">>
    /\ Completed
    /\ pre.cal = "SensorMissing"
    /\ pre.data.scratch_samples = SC - 1
    /\ cal = "SensorMissing"

\* C18: Lifetime sample counter.  stats.samples counts the samples of its
\* sensor over its lifetime: it never decreases, it is not reset when min and
\* max are, and it has grown whenever add has processed a sample.
C18_LifetimeSampleCounter ==
    /\ stats.samples >= pre.stats.samples
    /\ Completed => stats.samples > pre.stats.samples

(***************************************************************************)
(* Claims about the Sensors array.                                          *)
(***************************************************************************)
\* C13: Index bounds check.  For a Sensors of capacity S and any index >= S,
\* add(index, reading) and get_data(index) both fail with InvalidSensor(index),
\* and the failed call modifies no sensor record (status, accumulator, stats,
\* analysis).
C13_IndexBoundsCheck ==
    [][(sret'.op \in {"add", "get_data"} /\ sret'.index >= S) =>
          /\ sret'.kind = "InvalidSensor"
          /\ sensors' = sensors
    ]_vars

\* C13 witness: an add with index S has failed with InvalidSensor on an array
\* with a calibrated sensor and a sensor in the middle of a batch.
C13_Witness ==
    /\ sret.op = "add"
    /\ sret.index = S
    /\ sret.kind = "InvalidSensor"
    /\ sensors[0].cal = "MagnetDetected"
    /\ sensors[S - 1].data.scratch_samples = 1

\* C14: get_data readiness.  For an in-range index, get_data fails with
\* CalibrationError, carrying a copy of the record, if that sensor's status is
\* NotReady, and returns the sensor's record otherwise.  Every sensor of a new
\* array is NotReady with a null analysis and stays so until it completes its
\* first batch, so get_data fails on a sensor exactly until then.
C14_GetDataReadiness ==
    /\ (sret.op = "get_data" /\ sret.index < S) =>
          LET sd == sensors[sret.index]
          IN  /\ sd.cal = "NotReady" => sret.kind = "CalibrationError"
              /\ sd.cal # "NotReady" => sret.kind = "Ok"
              /\ sret.snap = sd
              /\ sret.kind = "CalibrationError" <=> track[sret.index].fed < SC
    /\ \A i \in 0..(S - 1) :
          /\ track[i].fed < SC =>
                (sensors[i].cal = "NotReady" /\ sensors[i].analysis = SenseAnalysis_null)
          /\ track[i].fed >= SC => sensors[i].cal # "NotReady"

\* C14 witness: get_data has failed with CalibrationError on a sensor in the
\* middle of its first batch while the other sensor had completed one.
C14_Witness ==
    /\ sret.op = "get_data"
    /\ sret.index = S - 1
    /\ sret.kind = "CalibrationError"
    /\ track[S - 1].fed = 1
    /\ sensors[0].cal \notin {"NotReady", "MagnetDetected"}

\* C15 as stated: for an in-range sensor that has never been classified as
\* MagnetDetected, get_data fails with CalibrationError.
C15_UncalibratedAsStated ==
    (sret.op = "get_data" /\ sret.index < S /\ ~track[sret.index].detected) =>
        sret.kind = "CalibrationError"

\* C15, amended: for an in-range sensor that has never been classified as
\* MagnetDetected, get_data fails with CalibrationError only until the sensor
\* completes its first batch; after that it returns the record, whose status
\* is SensorMissing, SensorBroken or MagnetWrongPoleOrMissing, with min and max
\* at their sentinels and distance, velocity, acceleration and jerk zero.
C15_Uncalibrated ==
    (sret.op = "get_data" /\ sret.index < S /\ ~track[sret.index].detected) =>
        /\ track[sret.index].fed < SC => sret.kind = "CalibrationError"
        /\ track[sret.index].fed >= SC =>
              /\ sret.kind = "Ok"
              /\ sret.snap.cal \in {"SensorMissing", "SensorBroken", "MagnetWrongPoleOrMissing"}
              /\ sret.snap.stats.min = 65535 /\ sret.snap.stats.max = 0
              /\ sret.snap.analysis.distance = 0 /\ sret.snap.analysis.velocity = 0
              /\ sret.snap.analysis.acceleration = 0 /\ sret.snap.analysis.jerk = 0

\* C15 witness: get_data has returned the record of a sensor whose batches so
\* far all ended in SensorMissing.
C15_Witness ==
    /\ sret.op = "get_data"
    /\ sret.index < S
    /\ ~track[sret.index].detected
    /\ sret.kind = "Ok"
    /\ sret.snap.cal = "SensorMissing"

\* What a caller reads from a get_data outcome: whether it succeeded, and the
\* status, analysis and stats of the record it refers to or carries.
Outcome(r) ==
    [kind |-> r.kind, cal |-> r.snap.cal, analysis |-> r.snap.analysis,
     stats |-> r.snap.stats]

\* C21: Partial batch is a no-op on results.  An add of a reading that does
\* not complete a batch of SC samples returns Ok(None), not an error, and
\* leaves the sensor's calibration status, analysis and stats unchanged; only
\* the accumulator changes, its count by one and its sum by the reading, no
\* other sensor changes, and get_data's outcome for that sensor is the same
\* before and after (get_data being what the Sensors returns for it).
C21_PartialBatchNoOp ==
    [][/\ \A i \in 0..(S - 1), reading \in SensorReadings :
              (/\ sret'.op = "add"
               /\ Sensors_add(i, reading)
               /\ sensors[i].data.scratch_samples + 1 # SC) =>
                  /\ sret'.kind = "OkNone"
                  /\ sensors'[i].cal = sensors[i].cal
                  /\ sensors'[i].analysis = sensors[i].analysis
                  /\ sensors'[i].stats = sensors[i].stats
                  /\ sensors'[i].data.scratch_samples = sensors[i].data.scratch_samples + 1
                  /\ sensors'[i].data.scratch = sensors[i].data.scratch + reading
                  /\ \A j \in 0..(S - 1) : j # i => sensors'[j] = sensors[j]
                  /\ Outcome(get_data(sensors', i)) = Outcome(get_data(sensors, i))
       /\ sret'.op = "get_data" =>
              [kind |-> sret'.kind, snap |-> sret'.snap] = get_data(sensors, sret'.index)
    ]_vars

\* C21 witness: the last call was an add that did not complete a batch, on a
\* calibrated sensor whose analysis and stats are not the initial ones, with
\* a reading that is not zero.
C21_Witness ==
    /\ sret.op = "add"
    /\ sret.index < S
    /\ sret.kind = "OkNone"
    /\ sensors[sret.index].cal = "MagnetDetected"
    /\ sensors[sret.index].data.scratch_samples = 1
    /\ sensors[sret.index].data.scratch > 0
    /\ sensors[sret.index].analysis.velocity # 0
    /\ sensors[sret.index].stats.min < sensors[sret.index].stats.max

(***************************************************************************)
(* Claims about the matrix scanner.                                         *)
(***************************************************************************)
Active == {c \in Cols : cols[c]}

\* C9 as stated: after new() or clear() the first next_strobe returns 0; each
\* successful next_strobe returns (the index the one before it returned + 1)
\* mod CSIZE; and strobe() always returns the index next_strobe last returned.
C9_StrobeSequenceAsStated ==
    /\ (mret.op = "next_strobe" /\ mret.ok) =>
          /\ mpre.phase = "cleared" => mret.val = 0
          /\ mpre.phase = "strobed" => mret.val = (mpre.last_idx + 1) % CSIZE
    /\ (mret.op = "strobe" /\ last_idx >= 0) => mret.val = last_idx

\* C9, amended: after new() or clear() the first next_strobe returns 0; each
\* successful next_strobe returns (cur_strobe before it + 1) mod CSIZE, which
\* is (the index the one before it returned + 1) mod CSIZE when that one
\* succeeded and no clear came between; strobe() returns cur_strobe, which is
\* the index next_strobe last returned as long as no clear and no failed
\* next_strobe followed it, and CSIZE - 1 right after new() or clear().
C9_StrobeSequence ==
    /\ (mret.op = "next_strobe" /\ mret.ok) =>
          /\ mret.val = cur_strobe
          /\ mret.val = (mpre.cur_strobe + 1) % CSIZE
          /\ mpre.phase = "cleared" => mret.val = 0
          /\ mpre.phase = "strobed" => mret.val = (mpre.last_idx + 1) % CSIZE
    /\ mret.op = "strobe" =>
          /\ mret.val = cur_strobe
          /\ phase = "strobed" => mret.val = last_idx
          /\ phase = "cleared" => mret.val = CSIZE - 1

\* C9 witness: a successful next_strobe right after one that returned
\* CSIZE - 1 has wrapped to index 0.
C9_Witness ==
    /\ mret.op = "next_strobe" /\ mret.ok
    /\ mpre.phase = "strobed"
    /\ mpre.last_idx = CSIZE - 1
    /\ mret.val = 0
    /\ CSIZE > 1

\* C10 as stated: 0 <= cur_strobe < CSIZE always; after any next_strobe call,
\* until the next call that drives columns, exactly one column is active,
\* namely cur_strobe; after new() or any clear() call every column is inactive.
C10_ActiveColumnAsStated ==
    /\ cur_strobe \in Cols
    /\ phase \in {"strobed", "strobe_failed"} => Active = {cur_strobe}
    /\ phase \in {"cleared", "clear_failed"} => Active = {}

\* C10, amended: 0 <= cur_strobe < CSIZE always and at most one column is ever
\* active; after a successful next_strobe, until the next call that drives
\* columns, exactly one column is active, namely cur_strobe; after new() or a
\* successful clear() every column is inactive.
C10_ActiveColumn ==
    /\ cur_strobe \in Cols
    /\ Cardinality(Active) <= 1
    /\ phase = "strobed" => Active = {cur_strobe}
    /\ phase = "cleared" => Active = {}

\* C10 witness: a sense after a successful next_strobe that moved the active
\* column from column 0 to column 1.
C10_Witness ==
    /\ phase = "strobed"
    /\ mret.op = "sense" /\ mret.ok
    /\ cur_strobe = 1
    /\ Active = {1}
    /\ last_idx = 1

\* C11: Sense routing.  A successful sense() reads every row once, in row
\* order; row i's level goes to the debounce cell cur_strobe * RSIZE + i, which
\* lies inside the CSIZE x RSIZE grid, and to no other cell; entry i of the
\* RSIZE events returned is On{cycles} if that cell's confirmed state is On and
\* Off{idle, cycles} otherwise; cur_strobe, the column outputs and the cells of
\* every other column are unchanged.
C11_SenseRouting ==
    [][(mret'.op = "sense" /\ mret'.ok) =>
          /\ Len(pin_log') = RSIZE
          /\ \A i \in Rows :
                /\ pin_log'[i + 1].op = "is_high"
                /\ pin_log'[i + 1].pin = i
                /\ pin_log'[i + 1].ok
          /\ \A i \in Rows :
                LET m == cur_strobe * RSIZE + i
                IN  /\ m >= 0 /\ m < CSIZE * RSIZE
                    /\ state_matrix'[m] = KeyState_record(state_matrix[m], pin_log'[i + 1].val)
                    /\ mret'.events[i + 1].on = (state_matrix'[m].state = "On")
                    /\ mret'.events[i + 1].cycles_since_state_change = state_matrix'[m].cycles
                    /\ ~mret'.events[i + 1].on =>
                          mret'.events[i + 1].idle = KeyState_idle(state_matrix'[m])
          /\ Len(mret'.events) = RSIZE
          /\ \A m \in 0..(CSIZE * RSIZE - 1) :
                (m \div RSIZE) # cur_strobe => state_matrix'[m] = state_matrix[m]
          /\ cur_strobe' = cur_strobe
          /\ cols' = cols
    ]_vars

\* C11 witness: a sense of column 1 has read row 0 low and row 1 high, and
\* returned Off for row 0 and the confirmed On of cell 1 * RSIZE + 1 for row 1.
C11_Witness ==
    /\ mret.op = "sense" /\ mret.ok
    /\ cur_strobe = 1
    /\ ~pin_log[1].val /\ pin_log[2].val
    /\ ~mret.events[1].on /\ mret.events[2].on
    /\ state_matrix[RSIZE + 1].state = "On"
    /\ state_matrix[1].state = "Off"

\* The confirmed state a level stands for.
StateOf(level) == IF level THEN "On" ELSE "Off"

\* C12: Debounce confirmation.  For one key read once per scan cycle: while a
\* level has been read for fewer than DebounceCycles cycles in a row the
\* confirmed state of its cell is the one it had when the run began; a run of
\* at least DebounceCycles cycles of a level that disagreed with the confirmed
\* state has flipped it exactly once, and a longer run flips it no further; the
\* pending evidence counts the cycles of the current disagreeing run, so it is
\* zero as soon as the level flips back and the full duration is needed again.
C12_DebounceConfirmation ==
    LET k == state_matrix[ProbeCell]
    IN  probe.run > 0 =>
          /\ probe.flips = IF probe.run >= DebounceCycles /\ probe.start # StateOf(probe.level)
                            THEN 1 ELSE 0
          /\ k.state = IF probe.run >= DebounceCycles THEN StateOf(probe.level)
                        ELSE probe.start
          /\ k.pending = IF k.state # StateOf(probe.level) THEN probe.run ELSE 0

\* C12 witness: a key confirmed On (by a run of high levels) was read low for
\* fewer than DebounceCycles cycles and then high again: its cell is still On,
\* with no pending evidence.
C12_Witness ==
    /\ probe.run = 1
    /\ probe.level
    /\ probe.start = "On"
    /\ state_matrix[ProbeCell].state = "On"
    /\ state_matrix[ProbeCell].pending = 0

\* C16: Hardware error propagation.  If a pin operation inside clear,
\* next_strobe or sense fails, the call returns the error, the failed operation
\* is the last pin operation of the call (the columns are left as they were
\* when it began) and it was tried once; a next_strobe
\* that fails at the set_low of the current column or at the drain of a row
\* leaves cur_strobe where it was and drives no column high.
C16_ErrorPropagation ==
    mret.op \in {"clear", "next_strobe", "sense"} =>
        /\ mret.ok <=> \A k \in 1..Len(pin_log) : pin_log[k].ok
        /\ \A k \in 1..Len(pin_log) : ~pin_log[k].ok => k = Len(pin_log)
        /\ ~mret.ok => Active = pin_log[Len(pin_log)].high
        /\ \A j, k \in 1..Len(pin_log) :
              j < k => ~(pin_log[j].op = pin_log[k].op /\ pin_log[j].pin = pin_log[k].pin)
        /\ (/\ mret.op = "next_strobe"
            /\ ~mret.ok
            /\ pin_log[Len(pin_log)].op \in {"set_low", "into_output_pin", "into_input_pin"})
              => /\ cur_strobe = mpre.cur_strobe
                 /\ \A k \in 1..Len(pin_log) : pin_log[k].op # "set_high"
                 /\ Active \subseteq pin_log[1].high

\* C16 witness: a next_strobe after a successful one has failed at the
\* into_input_pin of row 0, with the strobe index still at column 0.
C16_Witness ==
    /\ mret.op = "next_strobe" /\ ~mret.ok
    /\ mpre.phase = "strobed"
    /\ Len(pin_log) = 3
    /\ pin_log[3].op = "into_input_pin" /\ ~pin_log[3].ok
    /\ cur_strobe = 0
    /\ rows[0] = "output"
    /\ Active = {}

\* The order of the pin operations of the last next_strobe call, as far as the
\* call went: set_low of the column that was strobed; then, for each row in
\* order, into_output_pin and into_input_pin; then set_high of the column the
\* strobe index has advanced to.  No column is high during a row operation or
\* when the new column is set high.
DrainOrder ==
    LET last   == 2 + 2 * RSIZE
        op(k)  == IF k = 1 THEN "set_low"
                  ELSE IF k = last THEN "set_high"
                  ELSE IF k % 2 = 0 THEN "into_output_pin" ELSE "into_input_pin"
        pin(k) == IF k = 1 THEN mpre.cur_strobe
                  ELSE IF k = last THEN (mpre.cur_strobe + 1) % CSIZE
                  ELSE (k - 2) \div 2
    IN  /\ Len(pin_log) >= 1 /\ Len(pin_log) <= last
        /\ mret.ok => Len(pin_log) = last
        /\ \A k \in 1..Len(pin_log) :
              /\ pin_log[k].op = op(k)
              /\ pin_log[k].pin = pin(k)
              /\ k > 1 => pin_log[k].high = {}
        /\ (Len(pin_log) = last /\ pin_log[last].ok) =>
              (cur_strobe = pin_log[last].pin /\ Active = {cur_strobe})

\* C19 as stated: the pin operations of a next_strobe call happen in the drain
\* order, no column is active while a row is drained, and every row is in
\* input mode when next_strobe returns.
C19_DrainOrderingAsStated ==
    mret.op = "next_strobe" =>
        /\ DrainOrder
        /\ \A r \in Rows : rows[r] = "input"

\* C19, amended: the pin operations of a next_strobe call happen in the drain
\* order, as far as the call goes; no column is active while a row is drained;
\* and every row is in input mode when next_strobe returns without an error.
\* A row is in output mode when a call returns only if the call failed at or
\* before that row's into_input_pin.
C19_DrainOrdering ==
    mret.op = "next_strobe" =>
        /\ DrainOrder
        /\ mret.ok => \A r \in Rows : rows[r] = "input"
        /\ \A r \in Rows :
              rows[r] = "output" => (~mret.ok /\ Len(pin_log) <= 3 + 2 * r)

\* C19 witness: a next_strobe called while the last column was high has set it
\* low, drained both rows with no column high, and set column 0 high.
C19_Witness ==
    /\ mret.op = "next_strobe" /\ mret.ok
    /\ mpre.cur_strobe = CSIZE - 1
    /\ pin_log[1].high = {CSIZE - 1}
    /\ pin_log[2].high = {}
    /\ Len(pin_log) = 2 + 2 * RSIZE
    /\ Active = {0}
    /\ \A r \in Rows : rows[r] = "input"

\* How many levels the senses listed in window have fed to cell m.
Feeds(m) ==
    Cardinality({jk \in (1..CSIZE) \X (1..RSIZE) :
                    /\ jk[1] <= Len(window)
                    /\ jk[2] <= Len(window[jk[1]])
                    /\ window[jk[1]][jk[2]] = m})

\* C20: Whole-matrix coverage.  In the error-free scan loop (next_strobe, then
\* sense, repeated), any CSIZE consecutive iterations feed exactly one level to
\* each of the CSIZE x RSIZE debounce cells and to nothing else, and two
\* different (column, row) pairs never address the same cell.
C20_WholeMatrixCoverage ==
    /\ Len(window) = CSIZE =>
          /\ \A j \in 1..CSIZE : Len(window[j]) = RSIZE
          /\ \A j \in 1..CSIZE : \A k \in 1..RSIZE :
                window[j][k] \in 0..(CSIZE * RSIZE - 1)
          /\ \A m \in 0..(CSIZE * RSIZE - 1) : Feeds(m) = 1
    /\ \A c1, c2 \in Cols : \A r1, r2 \in Rows :
          <<c1, r1>> # <<c2, r2>> => index(c1, r1) # index(c2, r2)

\* C20 witness: CSIZE consecutive iterations that began with column 1 and
\* wrapped to column 0 have fed every cell, and have confirmed a key On.
C20_Witness ==
    /\ mret.op = "sense"
    /\ Len(window) = CSIZE
    /\ window[1][1] = RSIZE
    /\ window[CSIZE][1] = 0
    /\ \E m \in 0..(CSIZE * RSIZE - 1) : state_matrix[m].state = "On"

====
